---- MODULE Spec2Model ----
(***************************************************************************)
(* Jellyfin-Discord-Bot: the per-guild playback session.                   *)
(*                                                                         *)
(* VoiceService (services/voice.ts) keeps one voice connection per guild,  *)
(* PlayerService (services/player.ts) keeps one audio player per guild and *)
(* runs the play loop, handlers/commands.ts binds the slash commands and   *)
(* buttons to both.  Everything runs on one event loop: an action of this  *)
(* module is one run-to-completion step of a handler, a listener, a timer  *)
(* or a continuation after an await.                                       *)
(***************************************************************************)
EXTENDS Integers, Sequences, FiniteSets, Bags, TLC

\* ------------------------------------------------------------------ bounds
MaxConns == 2      \* connection objects joinVoiceChannel creates per guild
MaxCalls == 2      \* ensureConnection calls that pass the reuse check, per connection object
MaxPlayers == 2    \* audio players createAudioPlayer creates per guild
MaxTasks == 2      \* playNextSong iterations in flight per guild
MaxTimers == 2     \* pending setTimeout(playNextSong) per guild
Few == 1           \* each of the above in a scenario that is about something else
MaxChunks == 4     \* chunks the network source of a buffered stream delivers
MaxChunkSize == 3  \* size of one chunk, in MiB

Guilds == {"g1", "g2"}
Channels == {"vc1", "vc2"}
Playlists == {"p1", "p2"}
Songs == {"A", "B"}
None == "none"

\* ------------------------------------------------------------------ state
VARIABLES
  conns,             \* guild -> sequence of the VoiceConnection objects created for it
  connections,       \* VoiceService.connections: guild -> index into conns, 0 = no entry
  players,           \* PlayerService.players: guild -> index into pobj, 0 = no entry
  pobj,              \* guild -> sequence of the AudioPlayer objects created for it
  currentPlaylists,  \* PlayerService.currentPlaylists
  currentSongs,      \* PlayerService.currentSongs
  textChannels,      \* PlayerService.textChannels
  tasks,             \* guild -> bag of playNextSong iterations suspended at an await
  timers,            \* guild -> pending setTimeout(() => playNextSong(guildId), d), by delay d
  selecting,         \* guild -> some handlePlaylistSelect got its connection and awaits getPlaylists()
  hist,              \* guild -> tracks started since removePlaylist (observation only)
  pressed,           \* guild -> the player a stop-button handler read before its deferUpdate, -1 = no handler waits
  stream,            \* one createBufferedStream call and the Readable it returns
  cfg                \* the scenario: its bounds and inputs, fixed by Init

vars == <<conns, connections, players, pobj, currentPlaylists, currentSongs,
          textChannels, tasks, timers, selecting, hist, pressed, stream, cfg>>

Delays == {1000, 2000}

\* the catalog: p1 holds the scenario's items, p2 is empty
PlaylistItems(p) == IF p = "p1" THEN cfg.items ELSE {}

\* dry: the catalog had no item for the selection ("dry"), and an iteration
\* started after that with no setPlaylist in between ("violated")
\* down: the guild's connection was torn down and neither ensureConnection nor
\* setPlaylist was called since
NoHist == [rm |-> FALSE, starts |-> 0, trk |-> "none", p |-> 0, dry |-> "no", down |-> FALSE]

\* ---------------------------------------------------------- guild snapshot
\* The state of one guild as a record, so that a handler's nested synchronous
\* calls (destroy -> Destroyed listener -> cleanup -> callback) compose as
\* functions.  cb counts the onDestroyCallback invocations of the current step,
\* ret is the handle ensureConnection returns in it (0 = none, -1 = null),
\* threw records an exception that escapes the step.
Pack(g) ==
  [conns |-> conns[g], connections |-> connections[g], players |-> players[g],
   pobj |-> pobj[g], currentPlaylists |-> currentPlaylists[g],
   currentSongs |-> currentSongs[g], textChannels |-> textChannels[g],
   tasks |-> tasks[g], timers |-> timers[g], selecting |-> selecting[g],
   hist |-> hist[g], pressed |-> pressed[g], cb |-> 0, threw |-> FALSE, ret |-> 0]

\* a PlayerService that keeps one playlist selection for all guilds
CommitUnkeyed(g, s) ==
  /\ conns' = [conns EXCEPT ![g] = s.conns]
  /\ connections' = [connections EXCEPT ![g] = s.connections]
  /\ players' = [players EXCEPT ![g] = s.players]
  /\ pobj' = [pobj EXCEPT ![g] = s.pobj]
  /\ currentPlaylists' = [h \in Guilds |-> s.currentPlaylists]
  /\ currentSongs' = [currentSongs EXCEPT ![g] = s.currentSongs]
  /\ textChannels' = [textChannels EXCEPT ![g] = s.textChannels]
  /\ tasks' = [tasks EXCEPT ![g] = s.tasks]
  /\ timers' = [timers EXCEPT ![g] = s.timers]
  /\ selecting' = [selecting EXCEPT ![g] = s.selecting]
  /\ hist' = [hist EXCEPT ![g] = s.hist]
  /\ pressed' = [pressed EXCEPT ![g] = s.pressed]
  /\ UNCHANGED <<stream, cfg>>

\* a step writes the maps under the key of its guild
Commit(g, s) ==
  /\ conns' = [conns EXCEPT ![g] = s.conns]
  /\ connections' = [connections EXCEPT ![g] = s.connections]
  /\ players' = [players EXCEPT ![g] = s.players]
  /\ pobj' = [pobj EXCEPT ![g] = s.pobj]
  /\ currentPlaylists' = [currentPlaylists EXCEPT ![g] = s.currentPlaylists]
  /\ currentSongs' = [currentSongs EXCEPT ![g] = s.currentSongs]
  /\ textChannels' = [textChannels EXCEPT ![g] = s.textChannels]
  /\ tasks' = [tasks EXCEPT ![g] = s.tasks]
  /\ timers' = [timers EXCEPT ![g] = s.timers]
  /\ selecting' = [selecting EXCEPT ![g] = s.selecting]
  /\ hist' = [hist EXCEPT ![g] = s.hist]
  /\ pressed' = [pressed EXCEPT ![g] = s.pressed]
  /\ UNCHANGED <<stream, cfg>>

\* ------------------------------------------------------------ PlayerService
\* a cleanup that forgets currentPlaylists.delete
PlayerCleanupKeepsPlaylist(s) ==
  [s EXCEPT !.players = 0, !.currentSongs = None, !.textChannels = None]

\* a cleanup that also deletes the entry of the shared connection map
PlayerCleanupDropsConnection(s) ==
  [s EXCEPT !.players = 0, !.currentPlaylists = None, !.currentSongs = None,
            !.textChannels = None, !.connections = 0]

\* PlayerService.cleanup
PlayerCleanup(s) ==
  [s EXCEPT !.players = 0, !.currentPlaylists = None, !.currentSongs = None,
            !.textChannels = None]

\* the callback the composition root registers with setOnDestroyCallback:
\* guildId => playerService.cleanup(guildId)
OnDestroyCallback(s) == PlayerCleanup([s EXCEPT !.cb = @ + 1])

\* ------------------------------------------------------------- VoiceService
\* a cleanup that forgets connections.delete
VoiceCleanupKeepsHandle(s) == OnDestroyCallback(s)

\* VoiceService.cleanup
VoiceCleanup(s) == OnDestroyCallback([s EXCEPT !.connections = 0, !.hist.down = cfg.observe])

RECURSIVE Times(_, _)
\* n registered Destroyed listeners, each running this.cleanup(guildId)
Times(n, s) == IF n = 0 THEN s ELSE Times(n - 1, VoiceCleanup(s))

\* the connection objects the voice library still tracks for the guild
Live(s) == {c \in 1..Len(s.conns) : s.conns[c].status # "Destroyed"}

\* a destroy() that does nothing on a connection that is destroyed already
DestroyTwice(s, c) ==
  IF s.conns[c].status = "Destroyed"
  THEN s
  ELSE Times(s.conns[c].listeners,
             [s EXCEPT !.conns[c].status = "Destroyed", !.conns[c].sub = 0])

\* VoiceConnection.destroy(): throws on a connection that is already destroyed,
\* otherwise drops the subscription, enters Destroyed and emits the event
\* synchronously to every Destroyed listener ensureConnection registered.
Destroy(s, c) ==
  IF s.conns[c].status = "Destroyed"
  THEN [s EXCEPT !.threw = TRUE]
  ELSE Times(s.conns[c].listeners,
             [s EXCEPT !.conns[c].status = "Destroyed", !.conns[c].sub = 0])

\* a Disconnected listener whose wait is not resolved by Signalling / Connecting
SetStatusKeepsGrace(s, c, new) ==
  LET old == s.conns[c].status IN
  IF new = old THEN s
  ELSE IF new = "Disconnected"
  THEN [s EXCEPT !.conns[c].status = new, !.conns[c].grace = @ + s.conns[c].listeners]
  ELSE IF new \in {"Signalling", "Connecting"}
  THEN [s EXCEPT !.conns[c].status = new]
  ELSE IF new = "Ready"
  THEN [s EXCEPT !.conns[c].status = new, !.conns[c].waiters = 0, !.conns[c].ready = TRUE,
                 !.connections = IF s.conns[c].waiters > 0 THEN c ELSE @]
  ELSE s

\* a status change of a live connection as the library emits it:
\* entering Disconnected starts one grace wait per registered Disconnected
\* listener; entering Signalling or Connecting resolves every pending grace
\* wait; entering Ready resolves every entersState(Ready) of ensureConnection,
\* whose continuation stores the handle and returns it to its caller.
\* (ready is an observation: the connection has been Ready.)
SetStatus(s, c, new) ==
  LET old == s.conns[c].status IN
  IF new = old THEN s
  ELSE IF new = "Disconnected"
  THEN [s EXCEPT !.conns[c].status = new, !.conns[c].grace = @ + s.conns[c].listeners]
  ELSE IF new \in {"Signalling", "Connecting"}
  THEN [s EXCEPT !.conns[c].status = new, !.conns[c].grace = 0]
  ELSE IF new = "Ready"
  THEN [s EXCEPT !.conns[c].status = new, !.conns[c].waiters = 0, !.conns[c].ready = TRUE,
                 !.connections = IF s.conns[c].waiters > 0 THEN c ELSE @]
  ELSE s

NewConn(ch, sent) ==
  [status |-> IF sent THEN "Signalling" ELSE "Disconnected", channel |-> ch,
   listeners |-> 0, grace |-> 0, waiters |-> 0, sub |-> 0, ready |-> FALSE]

\* joinVoiceChannel: the library reuses the connection it tracks for the guild
\* (rejoining it when Disconnected, else re-sending the join payload) and
\* creates one only when it tracks none.  sent = the adapter took the payload.
JoinVoiceChannel(s, ch, sent) ==
  IF Live(s) # {}
  THEN LET c == CHOOSE x \in Live(s) : TRUE IN
       IF s.conns[c].status = "Disconnected"
       THEN IF sent THEN SetStatus([s EXCEPT !.conns[c].channel = ch], c, "Signalling")
            ELSE s
       ELSE IF sent THEN [s EXCEPT !.conns[c].channel = ch]
            ELSE SetStatus(s, c, "Disconnected")
  ELSE [s EXCEPT !.conns = Append(@, NewConn(ch, sent))]

\* an ensureConnection that reuses the stored connection only when it is Ready
EnsureConnectionStepReadyOnly(s, ch, adapter, sent) ==
  LET existing == s.connections IN
  IF ~adapter THEN [s EXCEPT !.ret = -1]
  ELSE IF existing # 0 /\ s.conns[existing].status = "Ready"
  THEN [s EXCEPT !.ret = existing, !.selecting = TRUE]
  ELSE LET j == JoinVoiceChannel(s, ch, sent)
           c == CHOOSE x \in Live(j) : TRUE
           r == [j EXCEPT !.conns[c].listeners = @ + 1]
       IN IF r.conns[c].status = "Ready"
          THEN [r EXCEPT !.connections = c, !.ret = c, !.selecting = TRUE]
          ELSE [r EXCEPT !.conns[c].waiters = @ + 1]

\* an ensureConnection that stores the handle before it waits for Ready
EnsureConnectionStepStoresEarly(s, ch, adapter, sent) ==
  LET existing == s.connections IN
  IF ~adapter THEN [s EXCEPT !.ret = -1]
  ELSE IF existing # 0 /\ s.conns[existing].status # "Destroyed"
  THEN [s EXCEPT !.ret = existing, !.selecting = TRUE]
  ELSE LET j == JoinVoiceChannel(s, ch, sent)
           c == CHOOSE x \in Live(j) : TRUE
           r == [j EXCEPT !.conns[c].listeners = @ + 1]
       IN IF r.conns[c].status = "Ready"
          THEN [r EXCEPT !.connections = c, !.ret = c, !.selecting = TRUE]
          ELSE [r EXCEPT !.conns[c].waiters = @ + 1, !.connections = c]

\* VoiceService.ensureConnection up to its await: the adapter check, the reuse
\* check, the join, the two listeners, and entersState(Ready), which is already
\* resolved when the connection is Ready.  ret = the value returned in this
\* step (0 = still awaiting).  A returned handle lets handlePlaylistSelect go on.
EnsureConnectionStep(s, ch, adapter, sent) ==
  LET existing == s.connections IN
  IF ~adapter THEN [s EXCEPT !.ret = -1]
  ELSE IF existing # 0 /\ s.conns[existing].status # "Destroyed"
  THEN [s EXCEPT !.ret = existing, !.selecting = TRUE]
  ELSE LET j == JoinVoiceChannel(s, ch, sent)
           c == CHOOSE x \in Live(j) : TRUE
           r == [j EXCEPT !.conns[c].listeners = @ + 1]
       IN IF r.conns[c].status = "Ready"
          THEN [r EXCEPT !.connections = c, !.ret = c, !.selecting = TRUE]
          ELSE [r EXCEPT !.conns[c].waiters = @ + 1]

\* handlePlaylistSelect calls ensureConnection
EnsureConnection(g, ch, adapter, sent) ==
  LET s == Pack(g)
      willJoin == adapter /\ ~(s.connections # 0 /\ s.conns[s.connections].status # "Destroyed")
      c == IF Live(s) # {} THEN CHOOSE x \in Live(s) : TRUE ELSE 0
  IN /\ willJoin /\ c = 0 => Len(s.conns) < cfg.conns
     /\ willJoin /\ c # 0 => s.conns[c].listeners < cfg.calls
     /\ Commit(g, [EnsureConnectionStep(s, ch, adapter, sent) EXCEPT !.hist.down = FALSE])

\* the transport moves a live connection to another status
Transition(old, new) ==
  \/ old = "Signalling" /\ new \in {"Connecting", "Disconnected"}
  \/ old = "Connecting" /\ new \in {"Ready", "Signalling", "Disconnected"}
  \/ old = "Ready" /\ new \in {"Connecting", "Signalling", "Disconnected"}
  \/ old = "Disconnected" /\ new \in {"Signalling", "Connecting"}

ConnEventStep(s, c, new) ==
  LET r == SetStatus(s, c, new)
  IN IF new = "Ready" /\ s.conns[c].waiters > 0
     THEN [r EXCEPT !.ret = c, !.selecting = TRUE]
     ELSE r

ConnEvent(g, c, new) ==
  LET s == Pack(g)
  IN /\ c \in Live(s)
     /\ Transition(s.conns[c].status, new)
     /\ Commit(g, ConnEventStep(s, c, new))

\* the transport closes the connection by itself (the adapter's destroy)
TransportDestroy(g, c) ==
  LET s == Pack(g)
  IN /\ c \in Live(s)
     /\ Commit(g, Destroy(s, c))

\* entersState(connection, Ready, 20_000) rejects: the catch block of ensureConnection
ReadyTimeoutStep(s, c) ==
  LET d == Destroy([s EXCEPT !.conns[c].waiters = @ - 1], c)
  IN IF d.threw THEN d ELSE [d EXCEPT !.ret = -1]

ReadyTimeout(g, c) ==
  LET s == Pack(g)
  IN /\ c \in 1..Len(s.conns)
     /\ s.conns[c].waiters > 0
     /\ Commit(g, ReadyTimeoutStep(s, c))

\* a Disconnected listener that cleans up without destroying the connection
GraceTimeoutStepNoDestroy(s, c) == VoiceCleanup([s EXCEPT !.conns[c].grace = @ - 1])

\* both entersState of the Disconnected listener reject: its catch block
GraceTimeoutStep(s, c) ==
  LET d == Destroy([s EXCEPT !.conns[c].grace = @ - 1], c)
  IN IF d.threw THEN d ELSE VoiceCleanup(d)

GraceTimeout(g, c) ==
  LET s == Pack(g)
  IN /\ c \in 1..Len(s.conns)
     /\ s.conns[c].grace > 0
     /\ Commit(g, GraceTimeoutStep(s, c))

\* VoiceService.disconnect
DisconnectStep(s) ==
  LET c == s.connections IN
  IF c = 0 THEN s
  ELSE LET d == Destroy(s, c) IN IF d.threw THEN d ELSE VoiceCleanup(d)

\* ------------------------------------------------------ PlayerService, loop
\* notices counts the now-playing notices the iteration has posted
Task(pc, pl, conn, song, player) ==
  [pc |-> pc, pl |-> pl, conn |-> conn, song |-> song, player |-> player, notices |-> 0]

AddTask(s, t) == [s EXCEPT !.tasks = @ (+) SetToBag({t})]
DelTask(s, t) == [s EXCEPT !.tasks = @ (-) SetToBag({t})]

NumTimers(s) == s.timers[1000] + s.timers[2000]

\* setTimeout(() => this.playNextSong(guildId), d)
SetTimer(s, d) == [s EXCEPT !.timers[d] = @ + 1]

\* a playNextSong without the playlist check
StartIterationNoPlaylistCheck(s) ==
  IF s.connections = 0 THEN s
  ELSE AddTask([s EXCEPT !.hist.dry = IF @ = "no" THEN @ ELSE "violated"],
               Task("fetch", s.currentPlaylists, s.connections, None, 0))

\* a playNextSong that returns when the guild has a player already
StartIterationOnlyFirst(s) ==
  IF s.currentPlaylists = None THEN s
  ELSE IF s.connections = 0 THEN s
  ELSE IF s.players # 0 THEN s
  ELSE AddTask([s EXCEPT !.hist.dry = IF @ = "no" THEN @ ELSE "violated"],
               Task("fetch", s.currentPlaylists, s.connections, None, 0))

\* playNextSong up to its first await: the two checks, then the catalog call
StartIteration(s) ==
  IF s.currentPlaylists = None THEN s
  ELSE IF s.connections = 0 THEN s
  ELSE AddTask([s EXCEPT !.hist.dry = IF @ = "no" THEN @ ELSE "violated"],
               Task("fetch", s.currentPlaylists, s.connections, None, 0))

Starts(s) == s.currentPlaylists # None /\ s.connections # 0

\* a catch block that only logs
CatchOnlyLogs(s) == s

\* a catch block that also gives up the guild's connection
CatchLeaves(s) ==
  IF s.connections # 0 THEN Destroy(SetTimer(s, 2000), s.connections) ELSE SetTimer(s, 2000)

\* the catch block of playNextSong
Catch(s) == SetTimer(s, 2000)

\* getRandomItemFromPlaylist settles: an item, null for an empty playlist, or
\* an exception.  An item is recorded as the current song; with a text channel
\* the notice is built and sent next, otherwise the stream is opened.
FetchDoneStep(s, t, r) ==
  LET d == DelTask(s, t) IN
  IF r = "throw" THEN Catch(d)
  ELSE IF r = None
  THEN [d EXCEPT !.hist.dry = IF cfg.observe /\ @ = "no" THEN "dry" ELSE @]
  ELSE AddTask([d EXCEPT !.currentSongs = r],
               Task(IF d.textChannels # None THEN "notice" ELSE "open",
                    None, t.conn, r, 0))

FetchResults(pl) == (IF PlaylistItems(pl) = {} THEN {None} ELSE PlaylistItems(pl)) \cup {"throw"}

\* a notice sent outside the try block
NoticeDoneStepUncaught(s, t, ok) ==
  LET d == DelTask(s, t) IN
  IF ok THEN AddTask(d, [t EXCEPT !.pc = "open", !.notices = @ + 1])
  ELSE [d EXCEPT !.threw = TRUE]

\* createSongEmbed and textChannel.send settle
NoticeDoneStep(s, t, ok) ==
  LET d == DelTask(s, t) IN
  IF ok THEN AddTask(d, [t EXCEPT !.pc = "open", !.notices = @ + 1]) ELSE Catch(d)

NewPlayer == [status |-> "Idle", stopping |-> FALSE, song |-> None]

\* connection.subscribe(player): nothing on a destroyed connection
Subscribe(s, c, p) ==
  IF s.conns[c].status = "Destroyed" THEN s ELSE [s EXCEPT !.conns[c].sub = p]

\* an iteration that creates a player of its own every time
OpenDoneStepAlwaysCreates(s, t, ok) ==
  LET d == DelTask(s, t) IN
  IF ~ok THEN Catch(d)
  ELSE LET p == Len(d.pobj) + 1
           n == [d EXCEPT !.pobj = Append(@, NewPlayer), !.players = p]
       IN AddTask(Subscribe(n, t.conn, p), [t EXCEPT !.pc = "wait", !.conn = 0, !.player = p])

\* createBufferedStream settles; on success the resource is made and the
\* guild's player is looked up or created, stored and subscribed to the
\* connection the iteration captured at its start; then the 500 ms wait
OpenDoneStep(s, t, ok) ==
  LET d == DelTask(s, t) IN
  IF ~ok THEN Catch(d)
  ELSE IF d.players # 0
  THEN AddTask(d, [t EXCEPT !.pc = "wait", !.conn = 0, !.player = d.players])
  ELSE LET p == Len(d.pobj) + 1
           n == [d EXCEPT !.pobj = Append(@, NewPlayer), !.players = p]
       IN AddTask(Subscribe(n, t.conn, p), [t EXCEPT !.pc = "wait", !.conn = 0, !.player = p])

\* observation: a track starts
NoteStart(h, p) ==
  IF ~h.rm THEN h
  ELSE [h EXCEPT !.starts = IF @ < 2 THEN @ + 1 ELSE @,
                 !.trk = IF @ = "ended" THEN "violated"
                         ELSE IF @ = "playing" /\ h.p = p THEN "none" ELSE @]

\* the 500 ms wait ends: player.play(resource), which throws when the resource
\* has ended already (its stream closed during the wait)
WaitDoneStep(s, t, ok) ==
  LET d == DelTask(s, t) IN
  IF ~ok THEN Catch(d)
  ELSE [d EXCEPT !.pobj[t.player] = [status |-> "Playing", stopping |-> FALSE, song |-> t.song],
                 !.hist = NoteStart(@, t.player)]

\* a stateChange listener that leaves whether or not a playlist is selected
StateChangeListenerAlwaysLeaves(s) ==
  IF s.connections # 0 THEN Destroy(s, s.connections) ELSE s

\* the stateChange listener, for a change from a non-idle status to Idle
StateChangeListener(s) ==
  IF s.currentPlaylists = None /\ s.connections # 0
  THEN Destroy(s, s.connections)
  ELSE s

\* the stateChange listener, for any change of the player's status: it acts
\* on a change from a non-idle status to Idle only
StateChangeListenerOn(s, old, new) ==
  IF old # "Idle" /\ new = "Idle" THEN StateChangeListener(s) ELSE s

\* the Idle listener
IdleListener(s) == SetTimer(s, 1000)

\* observation: the track of player p is over (ended: its stream ran out or
\* stop() took effect, as opposed to a stream error)
NoteEnd(h, p, ended) ==
  IF h.rm /\ h.trk = "playing" /\ h.p = p
  THEN [h EXCEPT !.trk = IF ended THEN "ended" ELSE "none"]
  ELSE h

\* a player leaves Playing or Paused for Idle: the library emits stateChange,
\* then idle; a listener that throws ends the emit
ToIdle(s, p, ended) ==
  LET a == [s EXCEPT !.pobj[p] = NewPlayer, !.hist = NoteEnd(@, p, ended)]
      b == StateChangeListener(a)
  IN IF b.threw THEN b ELSE IdleListener(b)

\* the error listener; the library then makes the player Idle
PlayerErrorStep(s, p) == ToIdle(SetTimer(s, 1000), p, FALSE)

\* a removePlaylist that also forgets the current item
RemovePlaylistAndSong(s) ==
  [s EXCEPT !.currentPlaylists = None, !.currentSongs = None]

\* PlayerService.removePlaylist
RemovePlaylist(s) ==
  [s EXCEPT !.currentPlaylists = None,
            !.hist = IF ~cfg.observe THEN @ ELSE
                     [rm |-> TRUE, starts |-> 0,
                      trk |-> IF s.players # 0 /\ s.pobj[s.players].status = "Playing"
                              THEN "playing" ELSE "none",
                      p |-> IF s.players # 0 /\ s.pobj[s.players].status = "Playing"
                            THEN s.players ELSE 0,
                      dry |-> s.hist.dry, down |-> s.hist.down]]

\* PlayerService.setPlaylist and setTextChannel
SetPlaylist(s, pl, ch) ==
  [s EXCEPT !.currentPlaylists = pl, !.textChannels = ch, !.hist = NoHist]

\* a skip that stops the player the way handleStop does
StopAndForget(s) ==
  LET p == s.players IN
  IF s.pobj[p].status = "Idle" THEN s
  ELSE [s EXCEPT !.pobj[p].stopping = TRUE, !.currentPlaylists = None]

\* AudioPlayer.stop(): the track ends within the next frames unless Idle already
Stop(s) ==
  LET p == s.players IN
  IF s.pobj[p].status = "Idle" THEN s ELSE [s EXCEPT !.pobj[p].stopping = TRUE]

\* ------------------------------------------------------------------ actions
\* the iterations and timers a guild may have pending in the scenario: none
\* for a guild the scenario keeps quiet (it connects and selects a playlist,
\* its play loop does not run)
TaskBudget(g) == IF g \in cfg.quiet THEN 0 ELSE cfg.tasks
TimerBudget(g) == IF g \in cfg.quiet THEN 0 ELSE cfg.timers

\* handlePlaylistSelect after ensureConnection returned a handle:
\* getPlaylists, setPlaylist, setTextChannel, editReply, playNextSong
SelectPlaylist(g, pl, ch, replied) ==
  LET s == Pack(g)
      a == SetPlaylist(s, pl, ch)
  IN /\ s.selecting
     /\ replied /\ Starts(a) => BagCardinality(s.tasks) < TaskBudget(g)
     /\ Commit(g, IF replied THEN StartIteration(a) ELSE a)

\* a timer set by the Idle listener, the error listener or the catch block fires
TimerFire(g, d) ==
  LET s == Pack(g)
      a == [s EXCEPT !.timers[d] = @ - 1]
  IN /\ s.timers[d] > 0
     /\ Starts(a) => BagCardinality(s.tasks) < TaskBudget(g)
     /\ Commit(g, StartIteration(a))

FetchDone(g, t, r) ==
  LET s == Pack(g)
  IN /\ BagIn(t, s.tasks) /\ t.pc = "fetch"
     /\ r \in FetchResults(t.pl)
     /\ r = "throw" => NumTimers(s) < TimerBudget(g)
     /\ Commit(g, FetchDoneStep(s, t, r))

NoticeDone(g, t, ok) ==
  LET s == Pack(g)
  IN /\ BagIn(t, s.tasks) /\ t.pc = "notice"
     /\ ~ok => NumTimers(s) < TimerBudget(g)
     /\ Commit(g, NoticeDoneStep(s, t, ok))

OpenDone(g, t, ok) ==
  LET s == Pack(g)
  IN /\ BagIn(t, s.tasks) /\ t.pc = "open"
     /\ ~ok => NumTimers(s) < TimerBudget(g)
     /\ ok /\ s.players = 0 => Len(s.pobj) < cfg.players
     /\ Commit(g, OpenDoneStep(s, t, ok))

WaitDone(g, t, ok) ==
  LET s == Pack(g)
  IN /\ BagIn(t, s.tasks) /\ t.pc = "wait"
     /\ ~ok => NumTimers(s) < TimerBudget(g)
     /\ Commit(g, WaitDoneStep(s, t, ok))

\* a track ends (its stream is exhausted, stop() has taken effect, or the
\* player has no ready subscriber left)
PlayerIdle(g, p) ==
  LET s == Pack(g)
  IN /\ p \in 1..Len(s.pobj)
     /\ s.pobj[p].status \in {"Playing", "Paused"}
     /\ NumTimers(s) < TimerBudget(g)
     /\ Commit(g, ToIdle(s, p, TRUE))

\* the stream of the playing resource fails
PlayerError(g, p) ==
  LET s == Pack(g)
  IN /\ p \in 1..Len(s.pobj)
     /\ s.pobj[p].status \in {"Playing", "Paused"}
     /\ NumTimers(s) + 1 < TimerBudget(g)
     /\ Commit(g, PlayerErrorStep(s, p))

\* handleSkip and the skip button
HandleSkip(g) ==
  LET s == Pack(g)
  IN /\ s.players # 0
     /\ Commit(g, Stop(s))

\* handleStop from getPlayer on: without a player only the reply, otherwise
\* player.stop() and removePlaylist, with no await in between
HandleStopStep(s) == IF s.players = 0 THEN s ELSE RemovePlaylist(Stop(s))

\* handleStop, the /stop command (without a player it changes nothing)
HandleStop(g) ==
  LET s == Pack(g)
  IN /\ s.players # 0
     /\ Commit(g, HandleStopStep(s))

\* handleButton for music_pause: player.pause() when the player is Playing;
\* the library emits stateChange for the change to Paused
PauseStep(s) ==
  LET p == s.players IN
  IF p = 0 \/ s.pobj[p].status # "Playing" THEN s
  ELSE StateChangeListenerOn([s EXCEPT !.pobj[p].status = "Paused"], "Playing", "Paused")

\* handleButton for music_resume: player.unpause() when the player is Paused
ResumeStep(s) ==
  LET p == s.players IN
  IF p = 0 \/ s.pobj[p].status # "Paused" THEN s
  ELSE StateChangeListenerOn([s EXCEPT !.pobj[p].status = "Playing"], "Paused", "Playing")

\* the pause button (in any other state it changes nothing)
Pause(g) ==
  LET s == Pack(g)
  IN /\ s.players # 0 /\ s.pobj[s.players].status = "Playing"
     /\ Commit(g, PauseStep(s))

\* the resume button (in any other state it changes nothing)
Resume(g) ==
  LET s == Pack(g)
  IN /\ s.players # 0 /\ s.pobj[s.players].status = "Paused"
     /\ Commit(g, ResumeStep(s))

\* handleLeave: disconnect, then PlayerService.cleanup
HandleLeaveStep(s) ==
  LET d == DisconnectStep(s) IN IF d.threw THEN d ELSE PlayerCleanup(d)

HandleLeave(g) ==
  LET s == Pack(g)
  IN /\ s.connections # 0
     /\ Commit(g, HandleLeaveStep(s))

\* AudioPlayer.stop() of the player object p
StopPlayer(s, p) ==
  IF s.pobj[p].status = "Idle" THEN s ELSE [s EXCEPT !.pobj[p].stopping = TRUE]

\* handleButton up to its await: it reads the guild's player (0 = undefined)
\* and calls deferUpdate
PressStopStep(s) == [s EXCEPT !.pressed = s.players]

\* a stop button that removes the playlist selection whether or not it read a player
StopButtonStepUnguarded(s, ok) ==
  LET p == s.pressed
      a == [s EXCEPT !.pressed = -1]
  IN IF ~ok THEN a ELSE RemovePlaylist(IF p = 0 THEN a ELSE StopPlayer(a, p))

\* handleButton after deferUpdate, for music_stop: with the player it read
\* before the await, player.stop() and removePlaylist; a rejected deferUpdate
\* is logged
StopButtonStep(s, ok) ==
  LET p == s.pressed
      a == [s EXCEPT !.pressed = -1]
  IN IF ~ok \/ p = 0 THEN a ELSE RemovePlaylist(StopPlayer(a, p))

\* the stop button is pressed (one handler waits per guild at a time)
PressStop(g) ==
  LET s == Pack(g)
  IN /\ s.pressed = -1
     /\ Commit(g, PressStopStep(s))

\* deferUpdate of the stop button settles
StopButton(g, ok) ==
  LET s == Pack(g)
  IN /\ s.pressed # -1
     /\ Commit(g, StopButtonStep(s, ok))

\* ------------------------------------------------------------ stream buffer
\* utils/stream.ts.  Sizes are in MiB.  A chunk is named by its position in
\* the source, so that loss, duplication and reordering show.
BUFFER_SIZE == 4

\* stream fields:
\*   source      the sizes of the chunks the network delivers, in order
\*   failAt      the reader.read() that would deliver chunk failAt (or the end,
\*               failAt = Len(source) + 1) rejects instead; 0 = no read error
\*   ok          response.ok && response.body
\*   pc          "fetch", "prefill", "returned" (the Readable exists), "failed"
\*   rpos        chunks read from the network so far
\*   buffer, bufferedSize   the pre-fill queue and its accumulated size
\*   pend        read() calls of the Readable suspended at await reader.read()
\*   reading, ended, destroyed, rq   the Readable: a _read is due, push(null)
\*               was received, destroy(error) was called, chunks pushed and not
\*               yet taken by the consumer
\*   refused     the running read() call got "not ready" from push
\*   out, endEmitted   what the consumer received ('data', 'end')
NewStream(source, failAt, ok) ==
  [source |-> source, failAt |-> failAt, ok |-> ok, pc |-> "fetch", rpos |-> 0,
   buffer |-> <<>>, bufferedSize |-> 0, pend |-> 0, reading |-> FALSE,
   ended |-> FALSE, destroyed |-> FALSE, rq |-> <<>>, refused |-> FALSE,
   out |-> <<>>, endEmitted |-> FALSE]

\* no stream is being opened
NoStream == [NewStream(<<>>, 0, FALSE) EXCEPT !.pc = "failed"]

\* await fetch(url) settles: the response check
FetchResponseStep(b) ==
  IF ~b.ok THEN [b EXCEPT !.pc = "failed"] ELSE [b EXCEPT !.pc = "prefill"]

\* what the next reader.read() settles with
NextRead(b) ==
  IF b.failAt = b.rpos + 1 THEN "error"
  ELSE IF b.rpos = Len(b.source) THEN "done"
  ELSE "value"

\* a pre-fill loop that goes on waiting for the threshold at the source's end
PrefillReadStepWaits(b) ==
  IF NextRead(b) = "error" THEN [b EXCEPT !.pc = "failed"]
  ELSE IF NextRead(b) = "done" THEN b
  ELSE LET i == b.rpos + 1
           size == b.bufferedSize + b.source[i]
       IN [b EXCEPT !.rpos = i, !.buffer = Append(@, i), !.bufferedSize = size,
                    !.pc = IF size < BUFFER_SIZE THEN "prefill" ELSE "returned"]

\* a pre-fill loop that tests bufferedSize <= BUFFER_SIZE
PrefillReadStepOvershoots(b) ==
  IF NextRead(b) = "error" THEN [b EXCEPT !.pc = "failed"]
  ELSE IF NextRead(b) = "done" THEN [b EXCEPT !.pc = "returned"]
  ELSE LET i == b.rpos + 1
           size == b.bufferedSize + b.source[i]
       IN [b EXCEPT !.rpos = i, !.buffer = Append(@, i), !.bufferedSize = size,
                    !.pc = IF size <= BUFFER_SIZE THEN "prefill" ELSE "returned"]

\* one turn of the pre-fill loop: await reader.read(), the break on done, the
\* queueing of the chunk and the loop test; a rejected read rejects the call
PrefillReadStep(b) ==
  IF NextRead(b) = "error" THEN [b EXCEPT !.pc = "failed"]
  ELSE IF NextRead(b) = "done" THEN [b EXCEPT !.pc = "returned"]
  ELSE LET i == b.rpos + 1
           size == b.bufferedSize + b.source[i]
       IN [b EXCEPT !.rpos = i, !.buffer = Append(@, i), !.bufferedSize = size,
                    !.pc = IF size < BUFFER_SIZE THEN "prefill" ELSE "returned"]

\* Readable.push(chunk): ignored once destroyed, an error after push(null),
\* otherwise the chunk joins the Readable's buffer and the _read is over
Push(b, i) ==
  IF b.destroyed THEN b
  ELSE IF b.ended THEN [b EXCEPT !.destroyed = TRUE]
  ELSE [b EXCEPT !.rq = Append(@, i), !.reading = FALSE]

\* Readable.push(null)
PushEnd(b) ==
  IF b.destroyed THEN b ELSE [b EXCEPT !.ended = TRUE, !.reading = FALSE]

\* Readable.destroy(error): 'error' is emitted and nothing is delivered after it
StreamDestroy(b) == [b EXCEPT !.destroyed = TRUE]

RECURSIVE DrainDropsRefused(_, _, _)
\* a drain that shifts a chunk off the queue and forgets it when refused
DrainDropsRefused(b, j, k) ==
  IF b.buffer = <<>> THEN b
  ELSE IF j = k THEN [b EXCEPT !.buffer = Tail(@), !.refused = TRUE]
  ELSE DrainDropsRefused(Push([b EXCEPT !.buffer = Tail(@)], Head(b.buffer)), j + 1, k)

RECURSIVE DrainIgnoresRefusal(_, _, _)
\* a drain that goes on pushing after "not ready"
DrainIgnoresRefusal(b, j, k) ==
  IF b.buffer = <<>> THEN b
  ELSE LET p == Push([b EXCEPT !.buffer = Tail(@)], Head(b.buffer))
       IN DrainIgnoresRefusal(IF j = k THEN [p EXCEPT !.refused = TRUE] ELSE p, j + 1, k)

RECURSIVE Drain(_, _, _)
\* the while loop of read(): shift and push the queued chunks until the queue
\* is empty or a push answers "not ready".  The answer is the Readable's
\* (buffer level against highWaterMark); here the k-th push of the call is the
\* one refused, none if k = 0.
Drain(b, j, k) ==
  IF b.buffer = <<>> THEN b
  ELSE LET p == Push([b EXCEPT !.buffer = Tail(@)], Head(b.buffer))
       IN IF j = k THEN [p EXCEPT !.refused = TRUE] ELSE Drain(p, j + 1, k)

\* the Readable calls read(): the drain, then, unless a push was refused,
\* await reader.read()
ReadStep(b, k) ==
  LET d == Drain([b EXCEPT !.reading = TRUE, !.refused = FALSE], 1, k)
  IN IF d.refused THEN d ELSE [d EXCEPT !.pend = @ + 1]

\* a read() whose catch block ends the sequence normally
SettleStepEndsOnError(b) ==
  LET a == [b EXCEPT !.pend = @ - 1] IN
  IF NextRead(b) = "error" THEN PushEnd(a)
  ELSE IF NextRead(b) = "done" THEN PushEnd(a)
  ELSE Push([a EXCEPT !.rpos = @ + 1], b.rpos + 1)

\* the oldest pending reader.read() of the Readable settles (the reader
\* serves its requests in order): push(value), push(null) or destroy(error)
SettleStep(b) ==
  LET a == [b EXCEPT !.pend = @ - 1] IN
  IF NextRead(b) = "error" THEN StreamDestroy(a)
  ELSE IF NextRead(b) = "done" THEN PushEnd(a)
  ELSE Push([a EXCEPT !.rpos = @ + 1], b.rpos + 1)

\* the consumer takes the next chunk ('data')
ConsumeStep(b) == [b EXCEPT !.out = Append(@, Head(b.rq)), !.rq = Tail(@)]

FetchResponse ==
  /\ stream.pc = "fetch"
  /\ stream' = FetchResponseStep(stream)
  /\ UNCHANGED <<conns, connections, players, pobj, currentPlaylists, currentSongs,
                 textChannels, tasks, timers, selecting, hist, pressed, cfg>>

PrefillRead ==
  /\ stream.pc = "prefill"
  /\ stream' = PrefillReadStep(stream)
  /\ UNCHANGED <<conns, connections, players, pobj, currentPlaylists, currentSongs,
                 textChannels, tasks, timers, selecting, hist, pressed, cfg>>

\* the Readable asks for data: only when no _read is running and it has
\* neither ended nor been destroyed
ReadCall ==
  /\ stream.pc = "returned"
  /\ ~stream.reading /\ ~stream.ended /\ ~stream.destroyed
  /\ \E k \in 0..Len(stream.buffer) : stream' = ReadStep(stream, k)
  /\ UNCHANGED <<conns, connections, players, pobj, currentPlaylists, currentSongs,
                 textChannels, tasks, timers, selecting, hist, pressed, cfg>>

ReadSettle ==
  /\ stream.pend > 0
  /\ stream' = SettleStep(stream)
  /\ UNCHANGED <<conns, connections, players, pobj, currentPlaylists, currentSongs,
                 textChannels, tasks, timers, selecting, hist, pressed, cfg>>

Consume ==
  /\ stream.rq # <<>> /\ ~stream.destroyed
  /\ stream' = ConsumeStep(stream)
  /\ UNCHANGED <<conns, connections, players, pobj, currentPlaylists, currentSongs,
                 textChannels, tasks, timers, selecting, hist, pressed, cfg>>

\* the Readable emits 'end': after push(null), once its buffer is empty
EmitEnd ==
  /\ stream.ended /\ stream.rq = <<>> /\ ~stream.destroyed /\ ~stream.endEmitted
  /\ stream' = [stream EXCEPT !.endEmitted = TRUE]
  /\ UNCHANGED <<conns, connections, players, pobj, currentPlaylists, currentSongs,
                 textChannels, tasks, timers, selecting, hist, pressed, cfg>>

\* ------------------------------------------------------------ specification
InitWith(c) ==
  /\ stream = NoStream
  /\ conns = [g \in Guilds |-> <<>>]
  /\ connections = [g \in Guilds |-> 0]
  /\ players = [g \in Guilds |-> 0]
  /\ pobj = [g \in Guilds |-> <<>>]
  /\ currentPlaylists = [g \in Guilds |-> None]
  /\ currentSongs = [g \in Guilds |-> None]
  /\ textChannels = [g \in Guilds |-> None]
  /\ tasks = [g \in Guilds |-> EmptyBag]
  /\ timers = [g \in Guilds |-> [d \in Delays |-> 0]]
  /\ selecting = [g \in Guilds |-> FALSE]
  /\ hist = [g \in Guilds |-> NoHist]
  /\ pressed = [g \in Guilds |-> -1]
  /\ cfg = c

Statuses == {"Signalling", "Connecting", "Ready", "Disconnected"}

\* the iterations of a guild that are suspended at an await
Tasks(g) == BagToSet(tasks[g])

\* one step of the event loop, for some guild of the scenario
CallEnsureConnection ==
  \E g \in cfg.guilds, ch \in cfg.channels, adapter \in BOOLEAN, sent \in BOOLEAN :
    EnsureConnection(g, ch, adapter, sent)
ConnectionChanges ==
  \E g \in cfg.guilds : \E c \in 1..Len(conns[g]), new \in Statuses : ConnEvent(g, c, new)
ConnectionCloses == \E g \in cfg.guilds : \E c \in 1..Len(conns[g]) : TransportDestroy(g, c)
ReadyTimesOut == \E g \in cfg.guilds : \E c \in 1..Len(conns[g]) : ReadyTimeout(g, c)
GraceTimesOut == \E g \in cfg.guilds : \E c \in 1..Len(conns[g]) : GraceTimeout(g, c)
Selects ==
  \E g \in cfg.guilds, pl \in cfg.playlists, replied \in BOOLEAN :
    SelectPlaylist(g, pl, "vc1", replied)
TimerFires == \E g \in cfg.guilds, d \in Delays : TimerFire(g, d)
FetchSettles ==
  \E g \in cfg.guilds : \E t \in Tasks(g), r \in Songs \cup {None, "throw"} : FetchDone(g, t, r)
NoticeSettles == \E g \in cfg.guilds : \E t \in Tasks(g), ok \in BOOLEAN : NoticeDone(g, t, ok)
OpenSettles == \E g \in cfg.guilds : \E t \in Tasks(g), ok \in BOOLEAN : OpenDone(g, t, ok)
WaitEnds == \E g \in cfg.guilds : \E t \in Tasks(g), ok \in BOOLEAN : WaitDone(g, t, ok)
TrackEnds == \E g \in cfg.guilds : \E p \in 1..Len(pobj[g]) : PlayerIdle(g, p)
TrackFails == \E g \in cfg.guilds : \E p \in 1..Len(pobj[g]) : PlayerError(g, p)
Skips == \E g \in cfg.guilds : HandleSkip(g)
Stops == \E g \in cfg.guilds : HandleStop(g)
Pauses == \E g \in cfg.guilds : Pause(g)
Resumes == \E g \in cfg.guilds : Resume(g)
Leaves == \E g \in cfg.guilds : HandleLeave(g)

\* the steps that belong to guild g: its commands, its connections' events and
\* timeouts, its iterations, its players' events and its timers
StepOf(g) ==
  \/ \E ch \in cfg.channels, adapter \in BOOLEAN, sent \in BOOLEAN :
       EnsureConnection(g, ch, adapter, sent)
  \/ \E c \in 1..Len(conns[g]), new \in Statuses : ConnEvent(g, c, new)
  \/ \E c \in 1..Len(conns[g]) : TransportDestroy(g, c) \/ ReadyTimeout(g, c) \/ GraceTimeout(g, c)
  \/ \E pl \in cfg.playlists, replied \in BOOLEAN : SelectPlaylist(g, pl, "vc1", replied)
  \/ \E d \in Delays : TimerFire(g, d)
  \/ \E t \in Tasks(g) :
       \/ \E r \in Songs \cup {None, "throw"} : FetchDone(g, t, r)
       \/ \E ok \in BOOLEAN : NoticeDone(g, t, ok) \/ OpenDone(g, t, ok) \/ WaitDone(g, t, ok)
  \/ \E p \in 1..Len(pobj[g]) : PlayerIdle(g, p) \/ PlayerError(g, p)
  \/ HandleSkip(g) \/ HandleStop(g) \/ Pause(g) \/ Resume(g) \/ HandleLeave(g)

Next ==
  \/ CallEnsureConnection
  \/ ConnectionChanges
  \/ ConnectionCloses
  \/ ReadyTimesOut
  \/ GraceTimesOut
  \/ Selects
  \/ TimerFires
  \/ FetchSettles
  \/ NoticeSettles
  \/ OpenSettles
  \/ WaitEnds
  \/ TrackEnds
  \/ TrackFails
  \/ Skips
  \/ Stops
  \/ Pauses
  \/ Resumes
  \/ Leaves

\* the play loop: one connection, overlapping iterations and timers
LoopCfg ==
  [guilds |-> {"g1"}, playlists |-> Playlists,
   conns |-> Few, calls |-> Few, players |-> Few, tasks |-> MaxTasks,
   timers |-> MaxTimers, items |-> {"A"}, channels |-> {"vc1"}, observe |-> TRUE, quiet |-> {}]

Init == InitWith(LoopCfg)

Spec == Init /\ [][Next]_vars

\* the connection manager: successive connections, concurrent ensureConnection calls
VoiceCfg ==
  [guilds |-> {"g1"}, playlists |-> {"p1"},
   conns |-> MaxConns, calls |-> MaxCalls, players |-> Few, tasks |-> Few,
   timers |-> MaxTimers, items |-> {"A"}, channels |-> {"vc1"}, observe |-> FALSE, quiet |-> {}]

InitVoice == InitWith(VoiceCfg)

SpecVoice == InitVoice /\ [][Next]_vars

\* joining from either of two voice channels
MoveCfg ==
  [guilds |-> {"g1"}, playlists |-> {"p1"},
   conns |-> Few, calls |-> MaxCalls, players |-> Few, tasks |-> Few,
   timers |-> MaxTimers, items |-> {"A"}, channels |-> Channels, observe |-> FALSE, quiet |-> {}]

InitMove == InitWith(MoveCfg)

SpecMove == InitMove /\ [][Next]_vars

\* one createBufferedStream call on any source of up to MaxChunks chunks, with
\* or without a read error, and its consumer
Sources == UNION {[1..n -> 1..MaxChunkSize] : n \in 0..MaxChunks}

InitStream ==
  /\ conns = [g \in Guilds |-> <<>>]
  /\ connections = [g \in Guilds |-> 0]
  /\ players = [g \in Guilds |-> 0]
  /\ pobj = [g \in Guilds |-> <<>>]
  /\ currentPlaylists = [g \in Guilds |-> None]
  /\ currentSongs = [g \in Guilds |-> None]
  /\ textChannels = [g \in Guilds |-> None]
  /\ tasks = [g \in Guilds |-> EmptyBag]
  /\ timers = [g \in Guilds |-> [d \in Delays |-> 0]]
  /\ selecting = [g \in Guilds |-> FALSE]
  /\ hist = [g \in Guilds |-> NoHist]
  /\ pressed = [g \in Guilds |-> -1]
  /\ cfg = LoopCfg
  /\ \E source \in Sources, ok \in BOOLEAN :
       \E failAt \in 0..(Len(source) + 1) : stream = NewStream(source, failAt, ok)

NextStream ==
  \/ FetchResponse
  \/ PrefillRead
  \/ ReadCall
  \/ ReadSettle
  \/ Consume
  \/ EmitEnd

SpecStream == InitStream /\ [][NextStream]_vars

\* the control buttons next to the slash commands
PressesStop == \E g \in cfg.guilds : PressStop(g)
StopButtonRuns == \E g \in cfg.guilds, ok \in BOOLEAN : StopButton(g, ok)

NextButton ==
  \/ CallEnsureConnection
  \/ ConnectionChanges
  \/ ConnectionCloses
  \/ ReadyTimesOut
  \/ GraceTimesOut
  \/ Selects
  \/ TimerFires
  \/ FetchSettles
  \/ NoticeSettles
  \/ OpenSettles
  \/ WaitEnds
  \/ TrackEnds
  \/ TrackFails
  \/ Skips
  \/ Stops
  \/ Pauses
  \/ Resumes
  \/ Leaves
  \/ PressesStop
  \/ StopButtonRuns

ButtonCfg ==
  [guilds |-> {"g1"}, playlists |-> {"p1"},
   conns |-> Few, calls |-> Few, players |-> Few, tasks |-> Few,
   timers |-> MaxTimers, items |-> {"A"}, channels |-> {"vc1"}, observe |-> FALSE,
   quiet |-> {}]

InitButton == InitWith(ButtonCfg)

SpecButton == InitButton /\ [][NextButton]_vars

\* the play loop under fair scheduling: a pending timer fires, and the catalog,
\* the notice, the stream open and player.play do not fail forever
FetchSucceeds == \E g \in cfg.guilds : \E t \in Tasks(g), r \in Songs : FetchDone(g, t, r)
NoticeSucceeds == \E g \in cfg.guilds : \E t \in Tasks(g) : NoticeDone(g, t, TRUE)
OpenSucceeds == \E g \in cfg.guilds : \E t \in Tasks(g) : OpenDone(g, t, TRUE)
PlaySucceeds == \E g \in cfg.guilds : \E t \in Tasks(g) : WaitDone(g, t, TRUE)

Fairness ==
  /\ WF_vars(TimerFires)
  /\ SF_vars(FetchSucceeds)
  /\ SF_vars(NoticeSucceeds)
  /\ SF_vars(OpenSucceeds)
  /\ SF_vars(PlaySucceeds)

LiveCfg ==
  [guilds |-> {"g1"}, playlists |-> {"p1"},
   conns |-> Few, calls |-> Few, players |-> Few, tasks |-> Few,
   timers |-> MaxTimers, items |-> {"A"}, channels |-> {"vc1"}, observe |-> FALSE,
   quiet |-> {}]

InitLive == InitWith(LiveCfg)

SpecLive == InitLive /\ [][Next]_vars /\ Fairness

\* two guilds side by side; g2 connects and selects, its play loop does not run
TwoCfg ==
  [guilds |-> Guilds, playlists |-> {"p1"},
   conns |-> Few, calls |-> Few, players |-> Few, tasks |-> Few,
   timers |-> MaxTimers, items |-> {"A"}, channels |-> {"vc1"}, observe |-> FALSE,
   quiet |-> {"g2"}]

InitTwo == InitWith(TwoCfg)

SpecTwo == InitTwo /\ [][Next]_vars

\* ------------------------------------------------------------------- claims
\* C1: a guild has a player handle only while it has a connection handle,
\* whatever the interleaving of operations, events and suspended iterations.
C1_PlayerOnlyWithConnection ==
  \A g \in Guilds : players[g] # 0 => connections[g] # 0

\* C2: each guild has at most one live (non-destroyed) connection, also with
\* two ensureConnection calls in flight, and a live connection that has been
\* Ready is the one stored in the connection map.
C2_OneLiveConnectionStored ==
  \A g \in Guilds :
    LET live == {c \in 1..Len(conns[g]) : conns[g][c].status # "Destroyed"} IN
    /\ Cardinality(live) <= 1
    /\ \A c \in live : conns[g][c].ready => connections[g] = c

\* two ensureConnection calls registered on the guild's second connection,
\* which became Ready and is stored
C2_Witness ==
  \E g \in Guilds :
    /\ Len(conns[g]) = 2 /\ connections[g] = 2
    /\ conns[g][2].listeners = 2 /\ conns[g][2].ready
    /\ conns[g][2].status = "Disconnected"

\* C3: per guild at most one playNextSong iteration is in flight (between its
\* start checks and its player.play) at any time.
C3_IterationsSequential ==
  \A g \in Guilds : BagCardinality(tasks[g]) <= 1

\* C4: once removePlaylist was called while a track was playing, and no
\* setPlaylist followed, no track starts after that track has ended.
C4_NoTrackAfterEnd ==
  \A g \in Guilds : hist[g].trk # "violated"

\* C5: after removePlaylist with no later setPlaylist at most one further
\* track starts.
C5_AtMostOneAfterRemove ==
  \A g \in Guilds : hist[g].starts <= 1


\* C6: on a stored connection that is not Destroyed, ensureConnection with any
\* channel returns the stored handle and changes neither the connection (its
\* status, channel, listeners, waits) nor the connection map.
C6_EnsureConnectionIdempotent ==
  \A g \in Guilds :
    connections[g] # 0 /\ conns[g][connections[g]].status # "Destroyed" =>
      \A ch \in Channels, sent \in BOOLEAN :
        LET r == EnsureConnectionStep(Pack(g), ch, TRUE, sent) IN
        /\ r.ret = connections[g]
        /\ r.conns = conns[g]
        /\ r.connections = connections[g]
        /\ ~r.threw

\* the stored connection sits Disconnected in vc1 and a call from vc2 gets it back
C6_Witness ==
  \E g \in Guilds :
    /\ connections[g] # 0
    /\ conns[g][connections[g]].status = "Disconnected"
    /\ conns[g][connections[g]].channel = "vc1"
    /\ selecting[g]
    /\ EnsureConnectionStep(Pack(g), "vc2", TRUE, TRUE).ret = connections[g]

\* C7: when the Ready wait of an ensureConnection call times out, the call
\* destroys the connection, returns null without throwing, and the guild has
\* no handle in the connection map.
C7_ReadyTimeoutReturnsNull ==
  \A g \in Guilds : \A c \in 1..Len(conns[g]) :
    conns[g][c].waiters > 0 =>
      LET r == ReadyTimeoutStep(Pack(g), c) IN
      /\ ~r.threw
      /\ r.ret = -1
      /\ r.conns[c].status = "Destroyed"
      /\ r.connections = 0

\* C8: whatever destroys the stored connection (disconnect, the disconnect
\* monitor, the transport or the auto-leave), the cleanup callback runs exactly
\* once and the stored handle is removed.
C8_CleanupExactlyOnce ==
  \A g \in Guilds :
    LET c == connections[g] IN
    c # 0 /\ conns[g][c].status # "Destroyed" =>
      /\ Destroy(Pack(g), c).cb = 1
      /\ Destroy(Pack(g), c).connections = 0
      /\ DisconnectStep(Pack(g)).cb = 1
      /\ DisconnectStep(Pack(g)).connections = 0
      /\ conns[g][c].grace > 0 =>
           /\ GraceTimeoutStep(Pack(g), c).cb = 1
           /\ GraceTimeoutStep(Pack(g), c).connections = 0

\* C9: disconnect on a guild with a stored connection destroys it, removes the
\* handle and invokes the cleanup callback exactly once; without a stored
\* connection it changes nothing.
C9_DisconnectCleansOnce ==
  \A g \in Guilds :
    LET r == DisconnectStep(Pack(g)) IN
    IF connections[g] = 0 THEN r = Pack(g)
    ELSE /\ r.conns[connections[g]].status = "Destroyed"
         /\ r.connections = 0
         /\ r.cb = 1

\* C10: when the grace period of a connection that is still Disconnected
\* expires, the connection is destroyed and the guild is left without
\* connection handle, player handle, playlist selection, current item and
\* output channel.
C10_GraceExpiryClears ==
  \A g \in Guilds : \A c \in 1..Len(conns[g]) :
    conns[g][c].status = "Disconnected" /\ conns[g][c].grace > 0 =>
      LET r == GraceTimeoutStep(Pack(g), c) IN
      /\ ~r.threw
      /\ r.conns[c].status = "Destroyed"
      /\ r.connections = 0
      /\ r.players = 0
      /\ r.currentPlaylists = None
      /\ r.currentSongs = None
      /\ r.textChannels = None

\* the stored connection is Disconnected with its grace wait pending while the
\* guild has a playing player, a playlist, a current item and an output channel
C10_Witness ==
  \E g \in Guilds :
    LET c == connections[g] IN
    /\ c # 0 /\ conns[g][c].status = "Disconnected" /\ conns[g][c].grace > 0
    /\ players[g] # 0 /\ pobj[g][players[g]].status = "Playing"
    /\ currentPlaylists[g] # None /\ currentSongs[g] # None /\ textChannels[g] # None

\* C11: when a Disconnected connection enters Signalling or Connecting within
\* the grace period, every pending wait of the disconnect monitor resolves and
\* nothing else happens: the connection is not destroyed, the cleanup callback
\* is not invoked, and the guild's connection handle, player, playlist
\* selection, current item and output channel are unchanged.
C11_BlipTakesNoAction ==
  \A g \in Guilds : \A c \in 1..Len(conns[g]) :
    conns[g][c].status = "Disconnected" /\ conns[g][c].grace > 0 =>
      \A new \in {"Signalling", "Connecting"} :
        LET r == ConnEventStep(Pack(g), c, new) IN
        /\ r.conns[c].status = new
        /\ r.conns[c].grace = 0
        /\ r.cb = 0 /\ ~r.threw
        /\ r.connections = connections[g]
        /\ r.players = players[g] /\ r.pobj = pobj[g]
        /\ r.currentPlaylists = currentPlaylists[g]
        /\ r.currentSongs = currentSongs[g]
        /\ r.textChannels = textChannels[g]

\* the stored connection dropped to Disconnected while the guild has a player,
\* a playlist, a current item and an output channel, and it re-enters Signalling
C11_Witness ==
  \E g \in Guilds :
    LET c == connections[g] IN
    /\ c # 0 /\ conns[g][c].status = "Disconnected" /\ conns[g][c].grace > 0
    /\ players[g] # 0 /\ currentPlaylists[g] # None
    /\ currentSongs[g] # None /\ textChannels[g] # None
    /\ ConnEventStep(Pack(g), c, "Signalling").conns[c].status = "Signalling"

\* C12: an explicit leave (disconnect, then PlayerService.cleanup) on a guild
\* with a stored connection removes the connection handle and the player
\* handle in that one step and throws nothing, with or without a player.
C12_LeaveRemovesHandles ==
  \A g \in Guilds :
    connections[g] # 0 =>
      LET r == HandleLeaveStep(Pack(g)) IN
      /\ ~r.threw
      /\ r.connections = 0
      /\ r.players = 0
      /\ r.conns[connections[g]].status = "Destroyed"

\* a leave while the guild's player is playing a track
C12_Witness ==
  \E g \in Guilds :
    /\ connections[g] # 0 /\ players[g] # 0
    /\ pobj[g][players[g]].status = "Playing"
    /\ conns[g][connections[g]].status = "Ready"
    /\ HandleLeaveStep(Pack(g)).players = 0

\* C13: when the catalog has no item for the selected playlist, the iteration
\* ends without setting a timer or starting an iteration, and no iteration
\* starts for the guild until a playlist is selected again.
C13_EmptyCatalogQuiesces ==
  \A g \in Guilds :
    /\ \A t \in Tasks(g) :
         t.pc = "fetch" /\ None \in FetchResults(t.pl) =>
           LET r == FetchDoneStep(Pack(g), t, None) IN
           /\ r.timers = timers[g]
           /\ r.tasks = tasks[g] (-) SetToBag({t})
    /\ hist[g].dry # "violated"

\* C14: playNextSong on a guild without playlist selection or without
\* connection handle does nothing: no catalog call (no iteration in flight),
\* no notice, no player, no timer, every map of the guild as before.
C14_PlayNextSongNoOp ==
  \A g \in Guilds :
    currentPlaylists[g] = None \/ connections[g] = 0 =>
      LET r == StartIteration(Pack(g)) IN
      /\ r.tasks = tasks[g] /\ r.timers = timers[g]
      /\ r.players = players[g] /\ r.pobj = pobj[g]
      /\ r.conns = conns[g] /\ r.connections = connections[g]
      /\ r.currentPlaylists = currentPlaylists[g]
      /\ r.currentSongs = currentSongs[g]
      /\ r.textChannels = textChannels[g]
      /\ ~r.threw

\* a retry timer is pending on a guild whose playlist was removed while its
\* connection is still stored: the timer's playNextSong will find no playlist
C14_Witness ==
  \E g \in Guilds :
    /\ timers[g][2000] > 0 /\ currentPlaylists[g] = None /\ connections[g] # 0
    /\ StartIteration(Pack(g)).tasks = tasks[g]

\* C15: a failure of the catalog, the notice, the stream open or player.play
\* ends the iteration and sets exactly one 2 s timer (and no other); when that
\* timer fires with the playlist selected and the connection stored, a new
\* iteration starts.
C15_FailureRetriesOnce ==
  \A g \in Guilds :
    LET s == Pack(g)
        retried(r, t) == /\ r.timers = [timers[g] EXCEPT ![2000] = @ + 1]
                         /\ r.tasks = tasks[g] (-) SetToBag({t})
                         /\ ~r.threw
    IN /\ \A t \in Tasks(g) :
            /\ t.pc = "fetch" => retried(FetchDoneStep(s, t, "throw"), t)
            /\ t.pc = "notice" => retried(NoticeDoneStep(s, t, FALSE), t)
            /\ t.pc = "open" => retried(OpenDoneStep(s, t, FALSE), t)
            /\ t.pc = "wait" => retried(WaitDoneStep(s, t, FALSE), t)
       /\ timers[g][2000] > 0 /\ currentPlaylists[g] # None /\ connections[g] # 0 =>
            LET a == StartIteration([s EXCEPT !.timers[2000] = @ - 1]) IN
            BagCardinality(a.tasks) = BagCardinality(tasks[g]) + 1

\* the stream of the current item is being opened (it may answer 404) on a
\* guild with a playlist and a connection, no timer pending
C15_Witness ==
  \E g \in Guilds : \E t \in Tasks(g) :
    /\ t.pc = "open" /\ currentPlaylists[g] # None /\ connections[g] # 0
    /\ NumTimers(Pack(g)) = 0
    /\ OpenDoneStep(Pack(g), t, FALSE).timers[2000] = 1

\* C16: no step of playNextSong lets an exception escape, whatever the
\* catalog, the notice send, the stream open and the player answer.
C16_NothingPropagates ==
  \A g \in Guilds :
    LET s == Pack(g) IN
    /\ ~StartIteration(s).threw
    /\ \A t \in Tasks(g) :
         /\ t.pc = "fetch" => \A r \in FetchResults(t.pl) : ~FetchDoneStep(s, t, r).threw
         /\ t.pc = "notice" => \A ok \in BOOLEAN : ~NoticeDoneStep(s, t, ok).threw
         /\ t.pc = "open" => \A ok \in BOOLEAN : ~OpenDoneStep(s, t, ok).threw
         /\ t.pc = "wait" => \A ok \in BOOLEAN : ~WaitDoneStep(s, t, ok).threw

\* the notice of the current item is being sent (the send may fail)
C16_Witness ==
  \E g \in Guilds : \E t \in Tasks(g) :
    /\ t.pc = "notice" /\ textChannels[g] # None
    /\ NoticeDoneStep(Pack(g), t, FALSE).timers[2000] = timers[g][2000] + 1

\* C17: the end of a track (its player goes Idle) sets exactly one 1 s timer
\* for the guild and nothing else starts an iteration in that step; an
\* iteration that is about to start a track has posted exactly one notice.
C17_OneIterationPerEnd ==
  \A g \in Guilds :
    /\ \A p \in 1..Len(pobj[g]) :
         pobj[g][p].status \in {"Playing", "Paused"} =>
           LET r == ToIdle(Pack(g), p, TRUE) IN
           /\ r.timers = [timers[g] EXCEPT ![1000] = @ + 1]
           /\ r.tasks = tasks[g]
           /\ ~r.threw
    /\ \A t \in Tasks(g) : t.pc = "wait" => t.notices = 1

\* C18: when a player of the guild goes from Playing or Paused to Idle (track
\* end, stop or stream error) with no playlist selected and a connection
\* stored, that connection is destroyed and the guild's handles, current item
\* and output channel are removed; with a playlist selected the connection and
\* the connection map stay as they are.
C18_AutoLeave ==
  \A g \in Guilds : \A p \in 1..Len(pobj[g]) :
    pobj[g][p].status \in {"Playing", "Paused"} =>
      \A r \in {ToIdle(Pack(g), p, TRUE), PlayerErrorStep(Pack(g), p)} :
        /\ ~r.threw
        /\ currentPlaylists[g] = None /\ connections[g] # 0 =>
             /\ r.conns[connections[g]].status = "Destroyed"
             /\ r.connections = 0 /\ r.players = 0
             /\ r.currentSongs = None /\ r.textChannels = None
        /\ currentPlaylists[g] # None =>
             /\ r.conns = conns[g]
             /\ r.connections = connections[g]

\* stop was pressed: the stored player is still playing its last frames, the
\* playlist is gone and the connection is stored
C18_Witness ==
  \E g \in Guilds :
    /\ players[g] # 0 /\ pobj[g][players[g]].status = "Playing"
    /\ pobj[g][players[g]].stopping
    /\ currentPlaylists[g] = None /\ connections[g] # 0
    /\ ToIdle(Pack(g), players[g], TRUE).connections = 0

\* C19: removePlaylist removes the guild's playlist selection and nothing
\* else: player handle, player objects (a playing track keeps playing),
\* current item, output channel, connection, iterations in flight and timers
\* are as before; a second call changes nothing more.
C19_RemovePlaylistOnly ==
  \A g \in Guilds :
    LET r == RemovePlaylist(Pack(g))
        rr == RemovePlaylist(r)
    IN /\ r.currentPlaylists = None
       /\ r.players = players[g] /\ r.pobj = pobj[g]
       /\ r.currentSongs = currentSongs[g]
       /\ r.textChannels = textChannels[g]
       /\ r.conns = conns[g] /\ r.connections = connections[g]
       /\ r.tasks = tasks[g] /\ r.timers = timers[g]
       /\ ~r.threw
       /\ rr = r

\* a track is playing from the selected playlist
C19_Witness ==
  \E g \in Guilds :
    /\ currentPlaylists[g] # None /\ currentSongs[g] # None
    /\ players[g] # 0 /\ pobj[g][players[g]].status = "Playing"
    /\ ~pobj[g][players[g]].stopping
    /\ RemovePlaylist(Pack(g)).pobj[players[g]].status = "Playing"

\* C20: PlayerService.cleanup removes the guild's player handle, playlist
\* selection, current item and output channel and leaves the connection
\* handle and the connections as before; it never throws and a second call
\* changes nothing more.
C20_CleanupKeepsConnection ==
  \A g \in Guilds :
    LET r == PlayerCleanup(Pack(g)) IN
    /\ r.players = 0 /\ r.currentPlaylists = None
    /\ r.currentSongs = None /\ r.textChannels = None
    /\ r.connections = connections[g] /\ r.conns = conns[g]
    /\ ~r.threw
    /\ PlayerCleanup(r) = r

\* the guild has a paused player, a playlist, a current item, an output
\* channel and a Ready connection
C20_Witness ==
  \E g \in Guilds :
    /\ players[g] # 0 /\ pobj[g][players[g]].status = "Paused"
    /\ currentPlaylists[g] # None /\ currentSongs[g] # None /\ textChannels[g] # None
    /\ connections[g] # 0 /\ conns[g][connections[g]].status = "Ready"
    /\ PlayerCleanup(Pack(g)).connections = connections[g]

\* the chunks 1..n in source order
Upto(n) == [i \in 1..n |-> i]

RECURSIVE Total(_)
\* the size of a source
Total(source) == IF source = <<>> THEN 0 ELSE Head(source) + Total(Tail(source))

\* C21: for a source smaller than the pre-fill threshold createBufferedStream
\* returns at the read that reports the source's end and not before, and its
\* Readable delivers the source's chunks in order and then signals end.
C21_ShortSource ==
  stream.ok /\ stream.failAt = 0 /\ Total(stream.source) < BUFFER_SIZE =>
    /\ stream.pc = "prefill" /\ stream.rpos = Len(stream.source) =>
         PrefillReadStep(stream).pc = "returned"
    /\ stream.pc = "returned" => stream.rpos = Len(stream.source)
    /\ stream.pc # "failed" /\ ~stream.destroyed
    /\ stream.out = Upto(Len(stream.out))
    /\ stream.endEmitted => stream.out = Upto(Len(stream.source))

\* a source of two chunks, 1 MiB and 2 MiB, was delivered whole and ended
C21_Witness ==
  /\ stream.source = <<1, 2>> /\ stream.failAt = 0
  /\ stream.out = <<1, 2>> /\ stream.endEmitted

\* C22: for every source and every pattern of read requests and refused
\* pushes, the chunks read so far are, in source order, those the consumer
\* received, then those in the Readable, then those still queued: none lost,
\* duplicated or reordered; end is signalled after all of them were received.
C22_ExactSequence ==
  stream.ok /\ stream.failAt = 0 /\ stream.pc \in {"prefill", "returned"} =>
    /\ ~stream.destroyed
    /\ stream.out \o stream.rq \o stream.buffer = Upto(stream.rpos)
    /\ stream.ended => stream.rpos = Len(stream.source) /\ stream.buffer = <<>>
    /\ stream.endEmitted => stream.out = Upto(Len(stream.source))

\* a source of four chunks, two of them pre-filled: three were received, the
\* fourth sits in the Readable and the end was pushed
C22_Witness ==
  /\ stream.source = <<3, 3, 1, 2>> /\ stream.failAt = 0
  /\ stream.out = <<1, 2, 3>> /\ stream.rq = <<4>> /\ stream.ended

\* C23: from the teardown of a guild's connection until the next
\* ensureConnection or setPlaylist for the guild, the guild has no connection
\* handle, player handle, playlist selection, current item or output channel,
\* also when an iteration suspended at the teardown resumes.
C23_NoEntryAfterTeardown ==
  \A g \in Guilds :
    hist[g].down =>
      /\ connections[g] = 0 /\ players[g] = 0
      /\ currentPlaylists[g] = None /\ currentSongs[g] = None
      /\ textChannels[g] = None

\* C24: with an adapter given, no step of ensureConnection (the call up to
\* its wait, the continuation at Ready, the catch block at the Ready timeout)
\* and no disconnect lets an exception escape.
C24_NoExceptionFromVoiceService ==
  \A g \in Guilds :
    LET s == Pack(g) IN
    /\ ~DisconnectStep(s).threw
    /\ \A ch \in Channels, sent \in BOOLEAN : ~EnsureConnectionStep(s, ch, TRUE, sent).threw
    /\ \A c \in 1..Len(conns[g]) :
         /\ conns[g][c].waiters > 0 => ~ReadyTimeoutStep(s, c).threw
         /\ conns[g][c].status = "Connecting" => ~ConnEventStep(s, c, "Ready").threw

\* C25: player.stop() on a playing track with a playlist selected changes
\* nothing but the player, and the player's change to Idle is the one of a
\* natural end: one 1 s timer and no other, the connection and the playlist
\* selection kept.
C25_SkipAdvances ==
  \A g \in Guilds :
    LET s == Pack(g)
        p == players[g]
    IN p # 0 /\ pobj[g][p].status = "Playing" /\ currentPlaylists[g] # None =>
         LET a == Stop(s)
             r == ToIdle(a, p, TRUE)
         IN /\ a = [s EXCEPT !.pobj[p].stopping = TRUE]
            /\ r = ToIdle(s, p, TRUE)
            /\ r.pobj[p].status = "Idle"
            /\ r.timers = [timers[g] EXCEPT ![1000] = @ + 1]
            /\ r.tasks = tasks[g]
            /\ r.conns = conns[g] /\ r.connections = connections[g]
            /\ r.currentPlaylists = currentPlaylists[g]
            /\ ~r.threw

\* skip was pressed on a playing track: the player is stopping, the playlist
\* is selected and the connection stored
C25_Witness ==
  \E g \in Guilds :
    /\ players[g] # 0 /\ pobj[g][players[g]].status = "Playing"
    /\ pobj[g][players[g]].stopping
    /\ currentPlaylists[g] # None /\ connections[g] # 0
    /\ ToIdle(Pack(g), players[g], TRUE).timers[1000] = timers[g][1000] + 1

\* C26: a guild with a connection, no playlist selection, an idle player and
\* no iteration in flight gets its connection destroyed eventually: it never
\* comes to rest in such a state, that is with a Ready connection and no timer
\* or grace wait pending, where only a new command or a transport event could
\* still change anything.
C26_AutoLeaveEventually ==
  \A g \in Guilds :
    ~ /\ connections[g] # 0
      /\ conns[g][connections[g]].status = "Ready"
      /\ conns[g][connections[g]].grace = 0
      /\ currentPlaylists[g] = None
      /\ players[g] # 0
      /\ \A p \in 1..Len(pobj[g]) : pobj[g][p].status = "Idle"
      /\ tasks[g] = EmptyBag
      /\ NumTimers(Pack(g)) = 0

\* C27: in one read request, a push answered "not ready" is the last push of
\* the request (the rest of the queue stays queued and no network read is
\* issued); a network read is issued only with the queue empty and leads to
\* at most one push.
C27_Backpressure ==
  /\ stream.pend > 0 => stream.buffer = <<>>
  /\ stream.pend > 0 => Len(SettleStep(stream).rq) <= Len(stream.rq) + 1
  /\ stream.pc = "returned" /\ ~stream.reading /\ ~stream.ended /\ ~stream.destroyed =>
       \A k \in 0..Len(stream.buffer) :
         LET r == ReadStep(stream, k) IN
         IF k = 0
         THEN /\ r.buffer = <<>> /\ r.pend = stream.pend + 1
              /\ r.rq = stream.rq \o stream.buffer
         ELSE /\ r.rq = stream.rq \o SubSeq(stream.buffer, 1, k)
              /\ r.buffer = SubSeq(stream.buffer, k + 1, Len(stream.buffer))
              /\ r.pend = stream.pend

\* a read request ended at a refused push with chunks left in the queue
C27_Witness ==
  /\ stream.refused /\ stream.buffer # <<>> /\ stream.rq # <<>>
  /\ stream.pend = 0

RECURSIVE QueuedSize(_, _)
\* the sum of the sizes of the chunks in a queue
QueuedSize(queue, source) ==
  IF queue = <<>> THEN 0 ELSE source[Head(queue)] + QueuedSize(Tail(queue), source)

\* C28: the pre-fill loop runs only below the threshold, and when
\* createBufferedStream returns, the source has ended or the queued size is at
\* least the threshold, the queued size without the last queued chunk is below
\* the threshold, and the queued size is the sum of the sizes of the chunks
\* read, all of which are queued in order.
C28_PrefillStops ==
  stream.pc = "prefill" =>
    LET r == PrefillReadStep(stream) IN
    /\ stream.bufferedSize < BUFFER_SIZE
    /\ r.pc = "returned" =>
         /\ NextRead(stream) = "done" \/ r.bufferedSize >= BUFFER_SIZE
         /\ r.buffer # <<>> =>
              r.bufferedSize - r.source[r.buffer[Len(r.buffer)]] < BUFFER_SIZE
         /\ r.bufferedSize = QueuedSize(r.buffer, r.source)
         /\ r.buffer = Upto(r.rpos)

\* the call returned with 3 MiB and 2 MiB queued and more of the source to come
C28_Witness ==
  /\ stream.pc = "returned" /\ stream.buffer = <<1, 2>>
  /\ stream.bufferedSize = 5 /\ stream.source = <<3, 2, 1>>
  /\ stream.rq = <<>> /\ stream.out = <<>> /\ stream.pend = 0

\* C29 (as stated): a read error during pre-fill makes createBufferedStream
\* fail without a sequence; a read error after pre-fill ends the sequence with
\* an error and without a natural end, and by then every chunk read from the
\* network has been received by the consumer, in order.
C29_AllReadEmitted ==
  stream.ok /\ stream.failAt # 0 =>
    /\ stream.pc = "prefill" /\ NextRead(stream) = "error" =>
         PrefillReadStep(stream).pc = "failed"
    /\ stream.pc = "failed" => stream.rq = <<>> /\ stream.out = <<>> /\ stream.pend = 0
    /\ stream.pend > 0 /\ NextRead(stream) = "error" => SettleStep(stream).destroyed
    /\ ~stream.ended /\ ~stream.endEmitted
    /\ stream.destroyed => stream.out = Upto(stream.rpos)

\* C29 (amended): a read error during pre-fill makes createBufferedStream
\* fail without a sequence; a read error after pre-fill ends the sequence with
\* an error and without a natural end; every chunk read before the error was
\* pushed to the sequence in order, the consumer has received the first of
\* them in order, and the rest stays undelivered in the destroyed sequence.
C29_ReadError ==
  stream.ok /\ stream.failAt # 0 =>
    /\ stream.pc = "prefill" /\ NextRead(stream) = "error" =>
         PrefillReadStep(stream).pc = "failed"
    /\ stream.pc = "failed" => stream.rq = <<>> /\ stream.out = <<>> /\ stream.pend = 0
    /\ stream.pend > 0 /\ NextRead(stream) = "error" => SettleStep(stream).destroyed
    /\ ~stream.ended /\ ~stream.endEmitted
    /\ stream.destroyed =>
         /\ stream.out \o stream.rq = Upto(stream.rpos)
         /\ stream.rpos = stream.failAt - 1

\* the read error arrived after the consumer had taken some of the chunks and
\* before it took the others
C29_Witness ==
  /\ stream.destroyed /\ stream.failAt # 0
  /\ stream.out # <<>> /\ stream.rq # <<>>

\* C30: an iteration whose stream has opened creates a player only when the
\* guild has none stored: it then creates one, stores it and subscribes it to
\* its connection; otherwise it takes the stored player and creates nothing,
\* subscribes nothing, also when a concurrent iteration created that player.
\* The stored player is always the one created last.  (The three listeners
\* are registered in the block that creates the player, and only there.)
C30_PlayerLazyAndCached ==
  \A g \in Guilds :
    /\ players[g] # 0 => players[g] = Len(pobj[g])
    /\ \A t \in Tasks(g) :
         t.pc = "open" =>
           LET r == OpenDoneStep(Pack(g), t, TRUE) IN
           IF players[g] # 0
           THEN /\ r.pobj = pobj[g] /\ r.players = players[g]
                /\ r.conns = conns[g]
                /\ \E w \in BagToSet(r.tasks) : w.pc = "wait" /\ w.player = players[g]
           ELSE /\ Len(r.pobj) = Len(pobj[g]) + 1
                /\ r.players = Len(r.pobj)
                /\ \A c \in 1..Len(conns[g]) :
                     r.conns[c].sub =
                       IF c = t.conn /\ conns[g][c].status # "Destroyed"
                       THEN r.players ELSE conns[g][c].sub

\* two iterations run concurrently: one has created the player and waits to
\* play, the stream of the other is just opening
C30_Witness ==
  \E g \in Guilds : \E t, w \in Tasks(g) :
    /\ t.pc = "open" /\ w.pc = "wait" /\ players[g] # 0 /\ w.player = players[g]
    /\ OpenDoneStep(Pack(g), t, TRUE).pobj = pobj[g]

\* the lifecycle status of each connection object of a guild
ConnStatus(cs) == [c \in 1..Len(cs) |-> cs[c].status]

Session(g) ==
  <<connections[g], conns[g], players[g], pobj[g], currentPlaylists[g],
    currentSongs[g], textChannels[g]>>

Ended(g) ==
  /\ NumTimers(Pack(g)) > 0
  /\ \A p \in 1..Len(pobj[g]) : pobj[g][p].status = "Idle"

\* a track is in the hands of a player of the guild
Handed(g) == \E p \in 1..Len(pobj[g]) : pobj[g][p].status = "Playing"

C34_EnsureConnectionTerminates ==
  \A g \in Guilds :
    LET s == Pack(g) IN
    /\ \A ch \in Channels, adapter \in BOOLEAN, sent \in BOOLEAN :
         LET r == EnsureConnectionStep(s, ch, adapter, sent) IN
         /\ ~r.threw
         /\ ~adapter => r.ret = -1 /\ r.conns = conns[g]
         /\ r.ret = 0 => \E c \in 1..Len(r.conns) :
                            /\ r.conns[c].waiters > 0
                            /\ c <= Len(conns[g]) => r.conns[c].waiters = conns[g][c].waiters + 1
         /\ r.ret > 0 => r.connections = r.ret /\ r.conns[r.ret].status # "Destroyed"
    /\ \A c \in 1..Len(conns[g]) :
         conns[g][c].waiters > 0 =>
           /\ LET r == ReadyTimeoutStep(s, c) IN
              /\ ~r.threw /\ r.ret = -1
              /\ r.conns[c].waiters = conns[g][c].waiters - 1
           /\ LET r == ConnEventStep(s, c, "Ready") IN
              conns[g][c].status = "Connecting" =>
                /\ ~r.threw /\ r.ret = c /\ r.connections = c
                /\ r.conns[c].waiters = 0
    /\ connections[g] # 0 => conns[g][connections[g]].ready

\* C35: while connection c2 of a guild is stored, every other connection c1
\* of the guild is destroyed already (its Destroyed event lies before the
\* creation of c2), and what is still pending of c1, the grace wait of its
\* disconnect monitor and the Ready wait of an ensureConnection call, ends
\* without removing the handle of c2 and without clearing the player handle,
\* playlist selection, current item or output channel.
C35_StaleEventsHarmless ==
  \A g \in Guilds :
    connections[g] # 0 =>
      \A c \in 1..Len(conns[g]) :
        c # connections[g] =>
          LET s == Pack(g)
              kept(r) == /\ r.connections = connections[g]
                         /\ r.conns[connections[g]] = conns[g][connections[g]]
                         /\ r.players = players[g] /\ r.pobj = pobj[g]
                         /\ r.currentPlaylists = currentPlaylists[g]
                         /\ r.currentSongs = currentSongs[g]
                         /\ r.textChannels = textChannels[g]
                         /\ r.cb = 0
          IN /\ conns[g][c].status = "Destroyed"
             /\ conns[g][c].grace > 0 => kept(GraceTimeoutStep(s, c))
             /\ conns[g][c].waiters > 0 => kept(ReadyTimeoutStep(s, c))

\* the guild's first connection was destroyed with a grace wait of its
\* disconnect monitor pending; the second connection is stored and Ready
C35_Witness ==
  \E g \in Guilds :
    /\ Len(conns[g]) = 2 /\ connections[g] = 2
    /\ conns[g][2].status = "Ready"
    /\ conns[g][1].status = "Destroyed" /\ conns[g][1].grace > 0
    /\ GraceTimeoutStep(Pack(g), 1).connections = 2

\* C36: in every reachable state the handle stored for a guild refers to a
\* connection that has been Ready and is not Destroyed; the continuation of
\* ensureConnection stores a connection that is Ready, and a destroy of the
\* stored connection removes the entry in the same step.
C36_NoDestroyedStored ==
  \A g \in Guilds :
    /\ connections[g] # 0 =>
         /\ conns[g][connections[g]].status # "Destroyed"
         /\ conns[g][connections[g]].ready
         /\ Destroy(Pack(g), connections[g]).connections = 0
    /\ \A c \in 1..Len(conns[g]) :
         conns[g][c].waiters > 0 /\ conns[g][c].status = "Connecting" =>
           LET r == ConnEventStep(Pack(g), c, "Ready") IN
           r.connections = c /\ r.conns[c].status = "Ready"

\* the guild's second connection is Ready and stored, two ensureConnection
\* calls waited for it, and the first connection is destroyed
C36_Witness ==
  \E g \in Guilds :
    /\ Len(conns[g]) = 2 /\ connections[g] = 2
    /\ conns[g][1].status = "Destroyed"
    /\ conns[g][2].status = "Ready" /\ conns[g][2].listeners = 2
    /\ Destroy(Pack(g), 2).connections = 0

\* C37: while the guild's player is playing, the current item is the item the
\* player plays; and the current item is never one that no player was handed:
\* when it is set, a player exists for the guild (an item can only have been
\* handed to a player that was created), and it is not the item of an
\* iteration that still waits for its stream or whose stream open has failed.
C37_CurrentItemConsistent ==
  \A g \in Guilds :
    /\ players[g] # 0 /\ pobj[g][players[g]].status = "Playing" =>
         currentSongs[g] = pobj[g][players[g]].song
    /\ currentSongs[g] # None => pobj[g] # <<>>

\* C38: a player that cleanup has removed from the guild's session (it is no
\* longer the stored player) is inert once the guild has a connection again:
\* when it goes Idle or fails, its listeners set no timer for the guild's play
\* loop, start no iteration and leave the guild's connection and connection
\* handle as they are.
C38_RemovedPlayerInert ==
  \A g \in Guilds : \A p \in 1..Len(pobj[g]) :
    p # players[g] /\ pobj[g][p].status \in {"Playing", "Paused"} /\ connections[g] # 0 =>
      \A r \in {ToIdle(Pack(g), p, TRUE), PlayerErrorStep(Pack(g), p)} :
        /\ r.timers = timers[g] /\ r.tasks = tasks[g]
        /\ r.conns = conns[g] /\ r.connections = connections[g]

\* C39: /stop and the stop button act only with the player handle they read
\* for the guild (the command in the step in which it acts, the button before
\* its deferUpdate).  Having read none, they change nothing: playlist
\* selection, players, connection, iterations and timers stay, so a first
\* track that is loading is played and the loop goes on.  Having read one,
\* they stop that player (nothing else of it changes) and remove the playlist
\* selection, and change nothing else.
C39_StopGuards ==
  \A g \in Guilds :
    LET s == Pack(g)
        stopped(r, p) ==
          /\ r.currentPlaylists = None
          /\ r.pobj = [pobj[g] EXCEPT ![p].stopping = @ \/ pobj[g][p].status # "Idle"]
          /\ r.players = players[g] /\ r.conns = conns[g] /\ r.connections = connections[g]
          /\ r.currentSongs = currentSongs[g] /\ r.textChannels = textChannels[g]
          /\ r.tasks = tasks[g] /\ r.timers = timers[g] /\ ~r.threw
    IN /\ IF players[g] = 0 THEN HandleStopStep(s) = s
                             ELSE stopped(HandleStopStep(s), players[g])
       /\ pressed[g] # -1 =>
            /\ StopButtonStep(s, FALSE) = [s EXCEPT !.pressed = -1]
            /\ IF pressed[g] = 0
               THEN StopButtonStep(s, TRUE) = [s EXCEPT !.pressed = -1]
               ELSE stopped(StopButtonStep(s, TRUE), pressed[g])

\* the stop button was pressed while the first track of the session is
\* loading: the handler read no player, the playlist is selected and the
\* stream of the first item is being opened
C39_Witness ==
  \E g \in Guilds : \E t \in Tasks(g) :
    /\ pressed[g] = 0 /\ players[g] = 0 /\ pobj[g] = <<>>
    /\ t.pc = "open" /\ currentPlaylists[g] # None /\ connections[g] # 0
    /\ StopButtonStep(Pack(g), TRUE).currentPlaylists = currentPlaylists[g]

\* C40: the pause button changes the stored player from Playing to Paused
\* and the resume button from Paused to Playing, and nothing else (no timer,
\* no iteration, the connection and its handle kept, also with no playlist
\* selected); in any other status, or with no player, they change nothing.
\* While the stored player is Paused nothing of the play loop is pending for
\* the guild: no iteration is in flight (it would set a timer when it fails
\* and play over the pause when it succeeds) and no timer that starts one.
C40_PauseResumeGuards ==
  \A g \in Guilds :
    LET s == Pack(g)
        p == players[g]
    IN /\ PauseStep(s) = IF p # 0 /\ pobj[g][p].status = "Playing"
                         THEN [s EXCEPT !.pobj[p].status = "Paused"] ELSE s
       /\ ResumeStep(s) = IF p # 0 /\ pobj[g][p].status = "Paused"
                          THEN [s EXCEPT !.pobj[p].status = "Playing"] ELSE s
       /\ p # 0 /\ pobj[g][p].status = "Paused" =>
            /\ tasks[g] = EmptyBag
            /\ \A d \in Delays :
                 timers[g][d] > 0 => StartIteration([s EXCEPT !.timers[d] = @ - 1]).tasks = tasks[g]

====
